---- MODULE Spec2Model ----
(***************************************************************************)
(* NativeWindowGtk (browser/native_window_gtk.cc): the GTK backend of the  *)
(* native-window abstraction.  The adapter's own fields are window_,       *)
(* fullscreen_, is_always_on_top_, minimum_size_ and maximum_size_.  Every  *)
(* method is modelled as the field assignments it makes plus the ordered   *)
(* list of toolkit calls it issues; the toolkit window is a record (gtk)   *)
(* that each call updates.  lastOp / lastCalls / lastCallbacks /           *)
(* lastReturn record what the most recent operation was and what it        *)
(* issued; recent keeps the latest argument of each cached setter.         *)
(*                                                                         *)
(* Methods dereference window_ without a check, so they are modelled on a  *)
(* live window only (window_ non-NULL, widget not destroyed, object not    *)
(* destructed).  The window position is owned by the window manager and    *)
(* is observed through the issued gtk_window_move calls only.              *)
(***************************************************************************)
EXTENDS Integers, Sequences, FiniteSets, TLC

VARIABLES window_, fullscreen_, is_always_on_top_, minimum_size_,
          maximum_size_, destructed, gtk, lastOp, lastCalls, lastCallbacks,
          lastReturn, recent

vars == <<window_, fullscreen_, is_always_on_top_, minimum_size_,
          maximum_size_, destructed, gtk, lastOp, lastCalls, lastCallbacks,
          lastReturn, recent>>

fields == <<window_, fullscreen_, is_always_on_top_, minimum_size_,
            maximum_size_>>

(* ---------------------------- bounds and inputs ------------------------ *)

MaxDim == 2
MaxCoord == 1

DefaultWidth == 800
DefaultHeight == 600

Size(w, h) == [width |-> w, height |-> h]
Point(x, y) == [x |-> x, y |-> y]
Rect(p, s) == [x |-> p.x, y |-> p.y, width |-> s.width, height |-> s.height]

Sizes == {Size(w, w + 1) : w \in 1..MaxDim}
Points == {Point(x, x + 1) : x \in 0..MaxCoord}
Rects == {Rect(p, s) : p \in Points, s \in Sizes}
Titles == {"a", "b"}
Signals == {"delete-event", "focus-out-event", "focus-in-event",
            "configure-event"}

NULL == "NULL"
GtkWindow == "GtkWindow"

Call(fn, args) == [fn |-> fn, args |-> args]
Range(s) == {s[i] : i \in 1..Len(s)}

(* ------------------------------ the toolkit ---------------------------- *)

\* gtk_window_new(GTK_WINDOW_TOPLEVEL): a resizable window, no size request,
\* no geometry hints, no handler connected.
GtkWindowNew ==
  [destroyed |-> FALSE,
   size |-> Size(200, 200),
   resizable |-> TRUE,
   size_request |-> Size(-1, -1),
   hints |-> [mask |-> {}, min_width |-> 0, min_height |-> 0,
              max_width |-> 0, max_height |-> 0],
   keep_above |-> <<>>,
   fullscreen |-> <<>>,
   signals |-> {}]

\* The effect of one toolkit call on the toolkit window.
GtkApply(tk, c) ==
  CASE c.fn = "gtk_window_set_default_size" ->
         [tk EXCEPT !.size = Size(c.args[1], c.args[2])]
    [] c.fn = "gtk_window_resize" ->
         [tk EXCEPT !.size = Size(c.args[1], c.args[2])]
    [] c.fn = "gtk_window_set_resizable" ->
         [tk EXCEPT !.resizable = c.args[1]]
    [] c.fn = "gtk_widget_set_size_request" ->
         [tk EXCEPT !.size_request = Size(c.args[1], c.args[2])]
    [] c.fn = "gtk_window_set_geometry_hints" ->
         [tk EXCEPT !.hints = c.args[1]]
    [] c.fn = "gtk_window_set_keep_above" ->
         [tk EXCEPT !.keep_above = <<c.args[1]>>]
    [] c.fn = "gtk_window_fullscreen" ->
         [tk EXCEPT !.fullscreen = <<TRUE>>]
    [] c.fn = "gtk_window_unfullscreen" ->
         [tk EXCEPT !.fullscreen = <<FALSE>>]
    [] c.fn = "g_signal_connect" ->
         [tk EXCEPT !.signals = @ \cup {<<c.args[1], c.args[2]>>}]
    [] c.fn = "gtk_widget_destroy" ->
         [tk EXCEPT !.destroyed = TRUE, !.signals = {}]
    [] OTHER -> tk

RECURSIVE GtkApplyAll(_, _)
GtkApplyAll(tk, calls) ==
  IF calls = <<>> THEN tk
  ELSE GtkApplyAll(GtkApply(tk, Head(calls)), Tail(calls))

\* What the toolkit does with a signal that no handler stopped.
GtkDefaultHandler(tk, sig, s) ==
  CASE sig = "delete-event" -> GtkApply(tk, Call("gtk_widget_destroy", <<>>))
    [] sig = "configure-event" -> [tk EXCEPT !.size = s]
    [] OTHER -> tk

(* ------------------------------ the adapter ---------------------------- *)

\* The toolkit calls of the constructor; opts is <<>> or <<size>> (the
\* width/height entries of the options dictionary).
ConstructorCalls(opts) ==
  LET width == IF opts = <<>> THEN DefaultWidth ELSE opts[1].width
      height == IF opts = <<>> THEN DefaultHeight ELSE opts[1].height
  IN <<Call("gtk_window_set_default_size", <<width, height>>),
       Call("g_signal_connect", <<"delete-event", "OnWindowDeleteEvent">>),
       Call("g_signal_connect", <<"focus-out-event", "OnFocusOut">>)>>

Init ==
  /\ window_ = GtkWindow
  /\ fullscreen_ = FALSE
  /\ is_always_on_top_ = FALSE
  /\ minimum_size_ = Size(0, 0)
  /\ maximum_size_ = Size(0, 0)
  /\ destructed = FALSE
  /\ \E opts \in {<<>>} \cup {<<s>> : s \in Sizes} :
       /\ gtk = GtkApplyAll(GtkWindowNew, ConstructorCalls(opts))
       /\ lastOp = [name |-> "NativeWindowGtk", args |-> opts]
       /\ lastCalls = ConstructorCalls(opts)
  /\ lastCallbacks = <<>>
  /\ lastReturn = <<>>
  /\ recent = [fullscreen |-> <<>>, top |-> <<>>, min |-> <<>>, max |-> <<>>]

Live == window_ # NULL /\ ~gtk.destroyed /\ ~destructed

\* The calls of one method reach the toolkit in order.
Issue(calls) ==
  /\ gtk' = GtkApplyAll(gtk, calls)
  /\ lastCalls' = calls

IsResizable == gtk.resizable
IsFullscreen == fullscreen_
IsKiosk == IsFullscreen
IsAlwaysOnTop == is_always_on_top_
GetMinimumSize == minimum_size_
GetMaximumSize == maximum_size_

CloseCallbacks == <<"CloseWebContents">>

Close ==
  /\ Issue(<<>>)
  /\ lastCallbacks' = CloseCallbacks
  /\ UNCHANGED fields

CloseImmediately ==
  /\ Issue(<<Call("gtk_widget_destroy", <<>>)>>)
  /\ window_' = NULL
  /\ lastCallbacks' = <<>>
  /\ UNCHANGED <<fullscreen_, is_always_on_top_, minimum_size_, maximum_size_>>

SetPositionCalls(position) ==
  <<Call("gtk_window_move", <<position.x, position.y>>)>>

SetSizeCalls(size) ==
  <<Call("gtk_window_resize", <<size.width, size.height>>)>>

SetPosition(position) ==
  /\ Issue(SetPositionCalls(position))
  /\ lastCallbacks' = <<>>
  /\ UNCHANGED fields

SetSize(size) ==
  /\ Issue(SetSizeCalls(size))
  /\ lastCallbacks' = <<>>
  /\ UNCHANGED fields

\* Move with the two toolkit calls in the opposite order.
Move_ResizeFirst(pos) ==
  /\ Issue(<<Call("gtk_window_resize", <<pos.width, pos.height>>),
             Call("gtk_window_move", <<pos.x, pos.y>>)>>)
  /\ lastCallbacks' = <<>>
  /\ UNCHANGED fields

Move(pos) ==
  /\ Issue(<<Call("gtk_window_move", <<pos.x, pos.y>>),
             Call("gtk_window_resize", <<pos.width, pos.height>>)>>)
  /\ lastCallbacks' = <<>>
  /\ UNCHANGED fields

SetFullscreen(fullscreen) ==
  /\ fullscreen_' = fullscreen
  /\ Issue(IF fullscreen THEN <<Call("gtk_window_fullscreen", <<>>)>>
                         ELSE <<Call("gtk_window_unfullscreen", <<>>)>>)
  /\ lastCallbacks' = <<>>
  /\ UNCHANGED <<window_, is_always_on_top_, minimum_size_, maximum_size_>>

\* SetKiosk that can only enter fullscreen.
SetKiosk_EnterOnly(kiosk) == SetFullscreen(TRUE)

SetKiosk(kiosk) == SetFullscreen(kiosk)

SetMinimumSize(size) ==
  /\ minimum_size_' = size
  /\ Issue(<<Call("gtk_window_set_geometry_hints",
                  <<[mask |-> {"GDK_HINT_POS", "GDK_HINT_MIN_SIZE"},
                     min_width |-> size.width, min_height |-> size.height,
                     max_width |-> 0, max_height |-> 0]>>)>>)
  /\ lastCallbacks' = <<>>
  /\ UNCHANGED <<window_, fullscreen_, is_always_on_top_, maximum_size_>>

\* SetMaximumSize that stores its argument in the minimum as well.
SetMaximumSize_StoresMinimum(size) ==
  /\ maximum_size_' = size
  /\ minimum_size_' = size
  /\ Issue(<<Call("gtk_window_set_geometry_hints",
                  <<[mask |-> {"GDK_HINT_POS", "GDK_HINT_MAX_SIZE"},
                     min_width |-> 0, min_height |-> 0,
                     max_width |-> size.width, max_height |-> size.height]>>)>>)
  /\ lastCallbacks' = <<>>
  /\ UNCHANGED <<window_, fullscreen_, is_always_on_top_>>

SetMaximumSize(size) ==
  /\ maximum_size_' = size
  /\ Issue(<<Call("gtk_window_set_geometry_hints",
                  <<[mask |-> {"GDK_HINT_POS", "GDK_HINT_MAX_SIZE"},
                     min_width |-> 0, min_height |-> 0,
                     max_width |-> size.width, max_height |-> size.height]>>)>>)
  /\ lastCallbacks' = <<>>
  /\ UNCHANGED <<window_, fullscreen_, is_always_on_top_, minimum_size_>>

SetResizable(resizable) ==
  /\ Issue((IF ~IsResizable
              THEN <<Call("gtk_widget_set_size_request",
                          <<gtk.size.width, gtk.size.height>>)>>
              ELSE <<>>)
           \o <<Call("gtk_window_set_resizable", <<resizable>>)>>)
  /\ lastCallbacks' = <<>>
  /\ UNCHANGED fields

\* SetAlwaysOnTop that always asks the toolkit to keep the window above.
SetAlwaysOnTop_AlwaysAbove(top) ==
  /\ is_always_on_top_' = top
  /\ Issue(<<Call("gtk_window_set_keep_above", <<TRUE>>)>>)
  /\ lastCallbacks' = <<>>
  /\ UNCHANGED <<window_, fullscreen_, minimum_size_, maximum_size_>>

SetAlwaysOnTop(top) ==
  /\ is_always_on_top_' = top
  /\ Issue(<<Call("gtk_window_set_keep_above", <<top>>)>>)
  /\ lastCallbacks' = <<>>
  /\ UNCHANGED <<window_, fullscreen_, minimum_size_, maximum_size_>>

SetTitle(title) ==
  /\ Issue(<<Call("gtk_window_set_title", <<title>>)>>)
  /\ lastCallbacks' = <<>>
  /\ UNCHANGED fields

\* A delete handler that lets the toolkit go on to its default handling.
OnWindowDeleteEvent_Propagates == [callbacks |-> CloseCallbacks, ret |-> FALSE]

\* A focus-out handler that forgets the blur notification.
OnFocusOut_Silent == [callbacks |-> <<>>, ret |-> FALSE]

\* The signal handlers: the callbacks they invoke and the gboolean returned.
OnWindowDeleteEvent == [callbacks |-> CloseCallbacks, ret |-> TRUE]

OnFocusOut == [callbacks |-> <<"NotifyWindowBlur">>, ret |-> FALSE]

Handler(h) ==
  CASE h = "OnWindowDeleteEvent" -> OnWindowDeleteEvent
    [] h = "OnFocusOut" -> OnFocusOut

\* The toolkit emits sig on the window: the connected handler runs; unless it
\* returns TRUE the toolkit's default handling follows.
Emit(sig, s) ==
  LET hs == {p[2] : p \in {q \in gtk.signals : q[1] = sig}}
  IN IF hs = {}
       THEN /\ lastCallbacks' = <<>>
            /\ lastReturn' = <<>>
            /\ gtk' = GtkDefaultHandler(gtk, sig, s)
       ELSE LET r == Handler(CHOOSE h \in hs : TRUE)
            IN /\ lastCallbacks' = r.callbacks
               /\ lastReturn' = <<r.ret>>
               /\ gtk' = IF r.ret THEN gtk
                                  ELSE GtkDefaultHandler(gtk, sig, s)

Destructor ==
  /\ Issue(IF window_ # NULL THEN <<Call("gtk_widget_destroy", <<>>)>>
                             ELSE <<>>)
  /\ destructed' = TRUE
  /\ lastCallbacks' = <<>>
  /\ UNCHANGED fields

(* ------------------------------ the steps ------------------------------ *)

\* A caller invokes a method on the live window.
Invoke(name, args) ==
  /\ Live
  /\ lastOp' = [name |-> name, args |-> args]
  /\ lastReturn' = <<>>
  /\ UNCHANGED destructed
  /\ recent' = CASE name \in {"SetFullscreen", "SetKiosk"} ->
                      [recent EXCEPT !.fullscreen = args]
                 [] name = "SetAlwaysOnTop" -> [recent EXCEPT !.top = args]
                 [] name = "SetMinimumSize" -> [recent EXCEPT !.min = args]
                 [] name = "SetMaximumSize" -> [recent EXCEPT !.max = args]
                 [] OTHER -> recent

DoClose == Invoke("Close", <<>>) /\ Close
DoCloseImmediately == Invoke("CloseImmediately", <<>>) /\ CloseImmediately
DoMove == \E r \in Rects : Invoke("Move", <<r>>) /\ Move(r)
DoSetPosition == \E p \in Points : Invoke("SetPosition", <<p>>) /\ SetPosition(p)
DoSetSize == \E s \in Sizes : Invoke("SetSize", <<s>>) /\ SetSize(s)
DoSetFullscreen ==
  \E b \in BOOLEAN : Invoke("SetFullscreen", <<b>>) /\ SetFullscreen(b)
DoSetKiosk == \E b \in BOOLEAN : Invoke("SetKiosk", <<b>>) /\ SetKiosk(b)
DoSetMinimumSize ==
  \E s \in Sizes : Invoke("SetMinimumSize", <<s>>) /\ SetMinimumSize(s)
DoSetMaximumSize ==
  \E s \in Sizes : Invoke("SetMaximumSize", <<s>>) /\ SetMaximumSize(s)
DoSetResizable ==
  \E b \in BOOLEAN : Invoke("SetResizable", <<b>>) /\ SetResizable(b)
DoSetAlwaysOnTop ==
  \E b \in BOOLEAN : Invoke("SetAlwaysOnTop", <<b>>) /\ SetAlwaysOnTop(b)
DoSetTitle == \E t \in Titles : Invoke("SetTitle", <<t>>) /\ SetTitle(t)

\* The toolkit delivers an event to the widget while it exists.
Deliver ==
  \E sig \in Signals, s \in Sizes :
    /\ ~gtk.destroyed
    /\ sig # "configure-event" => s = CHOOSE z \in Sizes : TRUE
    /\ Emit(sig, s)
    /\ lastOp' = [name |-> "Deliver",
                  args |-> IF sig = "configure-event" THEN <<sig, s>>
                                                      ELSE <<sig>>]
    /\ lastCalls' = <<>>
    /\ UNCHANGED <<fields, destructed, recent>>

DoDestructor ==
  /\ ~destructed
  /\ Destructor
  /\ lastOp' = [name |-> "~NativeWindowGtk", args |-> <<>>]
  /\ lastReturn' = <<>>
  /\ UNCHANGED recent

Next ==
  \/ DoClose
  \/ DoCloseImmediately
  \/ DoMove
  \/ DoSetPosition
  \/ DoSetSize
  \/ DoSetFullscreen
  \/ DoSetKiosk
  \/ DoSetMinimumSize
  \/ DoSetMaximumSize
  \/ DoSetResizable
  \/ DoSetAlwaysOnTop
  \/ DoSetTitle
  \/ Deliver
  \/ DoDestructor

Spec == Init /\ [][Next]_vars

(* ------------------------------ the claims ----------------------------- *)

DeliveredSignal == IF lastOp.name = "Deliver" THEN lastOp.args[1] ELSE "none"
ConnectedSignals == {p[1] : p \in gtk.signals}

\* C1 as stated: whenever a close, focus or resize event is delivered, a
\* handler for that signal is registered and a lifecycle callback is invoked.
C1_EveryEventKindTranslated ==
  DeliveredSignal \in {"delete-event", "focus-out-event", "configure-event"}
    => /\ DeliveredSignal \in ConnectedSignals
       /\ lastCallbacks # <<>>

\* C1 amended: exactly the delete and focus-out signals have a handler
\* registered at construction; a delivered delete event invokes the close
\* request, a delivered focus-out event the blur notification, and a resize
\* or focus-in event invokes no callback.
C1_CloseAndFocusOutTranslated ==
  /\ ~gtk.destroyed => ConnectedSignals = {"delete-event", "focus-out-event"}
  /\ DeliveredSignal = "delete-event" => lastCallbacks = <<"CloseWebContents">>
  /\ DeliveredSignal = "focus-out-event"
       => lastCallbacks = <<"NotifyWindowBlur">>
  /\ DeliveredSignal \in {"configure-event", "focus-in-event"}
       => lastCallbacks = <<>>

C1_Witness ==
  /\ DeliveredSignal = "focus-out-event"
  /\ lastCallbacks = <<"NotifyWindowBlur">>
  /\ "focus-out-event" \in ConnectedSignals

C2_MoveCalls ==
  lastOp.name = "Move" =>
    LET r == lastOp.args[1]
    IN /\ lastCalls = <<Call("gtk_window_move", <<r.x, r.y>>),
                        Call("gtk_window_resize", <<r.width, r.height>>)>>
       /\ lastCalls = SetPositionCalls(Point(r.x, r.y))
                        \o SetSizeCalls(Size(r.width, r.height))

C2_MoveFrame == lastOp'.name = "Move" => fields' = fields

\* C2: Move(rect) issues exactly gtk_window_move(rect.x, rect.y) and then
\* gtk_window_resize(rect.width, rect.height), the calls of SetPosition
\* followed by those of SetSize, and changes no field of the adapter.
C2_MoveIsSetPositionThenSetSize == []C2_MoveCalls /\ [][C2_MoveFrame]_vars

C2_Witness ==
  /\ lastOp.name = "Move"
  /\ Len(lastCalls) = 2
  /\ lastCalls[1].fn = "gtk_window_move"
  /\ lastCalls[2].args = <<lastOp.args[1].width, lastOp.args[1].height>>
  /\ recent.min # <<>>

\* C3: on a live window IsFullscreen() and IsKiosk() both equal the argument
\* of the latest SetFullscreen/SetKiosk call (false if none), and the latest
\* fullscreen/unfullscreen toolkit call is fullscreen exactly when it is true.
C3_FullscreenFollowsLastCall ==
  Live =>
    /\ IsFullscreen = (recent.fullscreen = <<TRUE>>)
    /\ IsKiosk = (recent.fullscreen = <<TRUE>>)
    /\ IsKiosk = IsFullscreen
    /\ gtk.fullscreen = recent.fullscreen
    /\ (gtk.fullscreen = <<TRUE>>) = IsFullscreen

C3_Witness ==
  /\ Live
  /\ lastOp.name = "SetKiosk"
  /\ lastOp.args = <<FALSE>>
  /\ gtk.fullscreen = <<FALSE>>
  /\ ~fullscreen_

C4_TopFollowsLastCall ==
  Live =>
    /\ IsAlwaysOnTop = (recent.top = <<TRUE>>)
    /\ gtk.keep_above = recent.top
    /\ lastOp.name = "SetAlwaysOnTop"
         => lastCalls = <<Call("gtk_window_set_keep_above", lastOp.args)>>

C4_TopFrame ==
  lastOp'.name # "SetAlwaysOnTop" => is_always_on_top_' = is_always_on_top_

\* C4: IsAlwaysOnTop() is the argument of the latest SetAlwaysOnTop call
\* (false if none), each call issues one keep-above call with that boolean,
\* so the flag equals the last value sent, and no other operation changes it.
C4_AlwaysOnTopCached == []C4_TopFollowsLastCall /\ [][C4_TopFrame]_vars

C4_Witness ==
  /\ Live
  /\ is_always_on_top_
  /\ gtk.keep_above = <<TRUE>>
  /\ lastOp.name = "SetFullscreen"

\* C5: a delete event requests closing of the web contents once, returns
\* TRUE and leaves the window alive; the widget is destroyed only by
\* CloseImmediately or the destructor; a focus-out event invokes the blur
\* notification once and returns FALSE.
C5_DeleteEventKeepsWindow ==
  /\ DeliveredSignal = "delete-event"
       => /\ lastCallbacks = <<"CloseWebContents">>
          /\ lastReturn = <<TRUE>>
          /\ window_ # NULL
          /\ ~gtk.destroyed
  /\ gtk.destroyed => (window_ = NULL \/ destructed)
  /\ DeliveredSignal = "focus-out-event"
       => /\ lastCallbacks = <<"NotifyWindowBlur">>
          /\ lastReturn = <<FALSE>>

C5_Witness ==
  /\ DeliveredSignal = "delete-event"
  /\ lastReturn = <<TRUE>>
  /\ lastCallbacks = CloseCallbacks
  /\ Live

\* C6 as stated: a SetResizable(false) call on a resizable window sets the
\* widget's size request to the window's current width and height.
C6_SizeRequestedWhenMadeUnresizable ==
  [][(gtk.resizable /\ lastOp'.name = "SetResizable"
        /\ lastOp'.args = <<FALSE>>)
       => /\ Call("gtk_widget_set_size_request",
                  <<gtk.size.width, gtk.size.height>>) \in Range(lastCalls')
          /\ gtk'.size_request = gtk.size]_vars

C7_BoundsFollowLastCall ==
  /\ recent.min # <<>> => GetMinimumSize = recent.min[1]
  /\ recent.max # <<>> => GetMaximumSize = recent.max[1]

C7_BoundsFrame ==
  /\ lastOp'.name = "SetMinimumSize"
       => /\ maximum_size_' = maximum_size_
          /\ fullscreen_' = fullscreen_
          /\ is_always_on_top_' = is_always_on_top_
  /\ lastOp'.name = "SetMaximumSize"
       => /\ minimum_size_' = minimum_size_
          /\ fullscreen_' = fullscreen_
          /\ is_always_on_top_' = is_always_on_top_

\* C7: GetMinimumSize() and GetMaximumSize() return the argument of the
\* latest SetMinimumSize and SetMaximumSize call; each setter leaves the
\* other stored bound, the fullscreen flag and the always-on-top flag alone.
C7_SizeBoundsIndependent == []C7_BoundsFollowLastCall /\ [][C7_BoundsFrame]_vars

C7_Witness ==
  /\ lastOp.name = "SetMaximumSize"
  /\ recent.min # <<>>
  /\ minimum_size_ = recent.min[1]
  /\ minimum_size_ # maximum_size_

\* C8 as stated: once a minimum (maximum) has been set, the geometry hints
\* installed on the toolkit window enforce a minimum (maximum) size equal to
\* the stored one; setting one bound does not remove the other.
C8_InstalledHintsAgree ==
  /\ recent.min # <<>>
       => /\ "GDK_HINT_MIN_SIZE" \in gtk.hints.mask
          /\ Size(gtk.hints.min_width, gtk.hints.min_height) = GetMinimumSize
  /\ recent.max # <<>>
       => /\ "GDK_HINT_MAX_SIZE" \in gtk.hints.mask
          /\ Size(gtk.hints.max_width, gtk.hints.max_height) = GetMaximumSize

====
